---- MODULE Spec2Model ----
(***************************************************************************)
(* Model of src/single.rs of the bls crate: the secret-key lifecycle       *)
(* (SecretKeyVT, SecretKey with key splitting and signed point mutation),  *)
(* Keypair / KeypairVT, SignedMessage and single-signature verification.   *)
(*                                                                         *)
(* Group elements are written by their discrete logarithm: the scalar      *)
(* field and the two groups are the integers modulo Order, the generator   *)
(* of PublicKeyGroup is 1, and the pairing of a PublicKeyGroup element     *)
(* with a SignatureGroup element is the product of the two logarithms.     *)
(***************************************************************************)
EXTENDS Integers, FiniteSets, Sequences, TLC

VARIABLES
    kind,       \* which key object the program holds: "none", "SecretKeyVT",
                \* "KeypairVT", "SecretKey" or "Keypair"
    vtkey,      \* SecretKeyVT.0 (kinds SecretKeyVT, KeypairVT)
    secretkey,  \* SecretKey { key, old_unsigned, old_signed } (kinds SecretKey, Keypair)
    public,     \* the cached field `public` (kinds KeypairVT, Keypair)
    logical,    \* the secret scalar fixed when the key was generated
    signed,     \* every SignedMessage returned so far
    ret,        \* the last call: its name, inputs and returned value
    lock,       \* the caller holding the shared key's lock, or "free"
    pc,         \* per caller: the line of SecretKey::sign it is at, or "idle"
    local,      \* per caller: the locals of its resplit and sign_once
    result,     \* per caller: the (message, signature) its last call returned
    history     \* what the instrumented specifications remember of the past

vars == <<kind, vtkey, secretkey, public, logical, signed, ret,
          lock, pc, local, result, history>>

\* The state of the callers sharing one key, and the rest of the state.
\* The history is written by the instrumented actions alone, so it is in the
\* frame of the callers' steps and of the single-owner operations alike.
shared == <<lock, pc, local, result, history>>
single == <<kind, vtkey, public, logical, signed, ret, history>>

\* Order of the scalar field and of both groups (the real curve: BLS12-381).
Order == 5

Scalars == 0 .. (Order - 1)
Points == 0 .. (Order - 1)

\* ---------------------------------------------------------------- arithmetic
\* E::Scalar / E::SignatureGroup / E::PublicKeyGroup operators (+=, -=, *=).
Add(a, b) == (a + b) % Order
Sub(a, b) == ((a - b) + Order) % Order
Mul(p, s) == (p * s) % Order
\* E::SignatureGroup::zero(), E::Scalar::zero()
Zero == 0
\* <E::PublicKeyGroup as CurveProjective>::Affine::prime_subgroup_generator()
Generator == 1
\* E::pairing(p, q), in the exponent of the target group
Pairing(p, q) == Mul(p, q)

\* ------------------------------------------------------------------ messages
\* Message::new(context, payload): the three messages of tests::single_messages.
good == [context |-> "ctx", payload |-> "test message"]
bad == [context |-> "ctx", payload |-> "wrong message"]
other == [context |-> "other", payload |-> "test message"]
Messages == {good, bad, other}

\* Message::hash_to_signature_curve: a deterministic hash to SignatureGroup,
\* idealised as collision free and never the identity.
hash_to_signature_curve(message) ==
    CASE message = good -> 1
      [] message = bad -> 2
      [] message = other -> 3

\* --------------------------------------------------------------- SecretKeyVT
\* SecretKeyVT::sign
SecretKeyVT_sign(self, message) ==
    LET s == hash_to_signature_curve(message)
    IN  Mul(s, self)

\* SecretKeyVT::into_split_dirty
SecretKeyVT_into_split_dirty(self) ==
    [key |-> <<self, Zero>>, old_unsigned |-> Zero, old_signed |-> Zero]

\* SecretKeyVT::into_public
SecretKeyVT_into_public(self) == Mul(Generator, self)

\* ----------------------------------------------------------------- SecretKey
\* SecretKey::generate_dirty: two draws of E::generate
SecretKey_generate_dirty(k0, k1) ==
    [key |-> <<k0, k1>>, old_unsigned |-> Zero, old_signed |-> Zero]

\* A plausible slip in init_point_mutation: the second share is left out.
init_point_mutation_one_share(self, r) ==
    [self EXCEPT !.old_unsigned = r, !.old_signed = Mul(r, self.key[1])]

\* SecretKey::init_point_mutation with the drawn point r
SecretKey_init_point_mutation(self, r) ==
    LET s0 == r
        old_signed1 == Mul(s0, self.key[1])
        s1 == Mul(s0, self.key[2])
    IN  [self EXCEPT !.old_unsigned = s0, !.old_signed = Add(old_signed1, s1)]

\* SecretKey::generate
SecretKey_generate(k0, k1, r) ==
    SecretKey_init_point_mutation(SecretKey_generate_dirty(k0, k1), r)

\* SecretKey::into_vartime
SecretKey_into_vartime(self) == Add(self.key[1], self.key[2])

\* A plausible slip in resplit: both shares moved the same way.
resplit_same_direction(self, x) ==
    [self EXCEPT !.key = <<Add(self.key[1], x), Add(self.key[2], x)>>]

\* A plausible slip in resplit: the point mutation is reset with the shares.
resplit_resets_mutation(self, x) ==
    [self EXCEPT !.key = <<Add(self.key[1], x), Sub(self.key[2], x)>>,
                 !.old_unsigned = Zero, !.old_signed = Zero]

\* SecretKey::resplit with the drawn scalar x
SecretKey_resplit(self, x) ==
    [self EXCEPT !.key = <<Add(self.key[1], x), Sub(self.key[2], x)>>]

\* A plausible slip in sign_once: the remembered signed point is not replaced.
sign_once_keeps_old_signed(self, message) ==
    LET z0 == Sub(hash_to_signature_curve(message), self.old_unsigned)
        z2 == Add(Mul(z0, self.key[2]), Mul(z0, self.key[1]))
    IN  [secret |-> [self EXCEPT !.old_unsigned = z0],
         signature |-> Add(z2, self.old_signed), multiplied |-> z0]

\* A plausible slip in sign_once: the new unsigned point is not remembered.
sign_once_forgets_unsigned(self, message) ==
    LET z0 == Sub(hash_to_signature_curve(message), self.old_unsigned)
        z2 == Add(Mul(z0, self.key[2]), Mul(z0, self.key[1]))
    IN  [secret |-> [self EXCEPT !.old_signed = z2],
         signature |-> Add(z2, self.old_signed), multiplied |-> z0]

\* A plausible slip in sign_once: the old point is added, not subtracted.
sign_once_adds_old_unsigned(self, message) ==
    LET z0 == Add(hash_to_signature_curve(message), self.old_unsigned)
        z2 == Add(Mul(z0, self.key[2]), Mul(z0, self.key[1]))
    IN  [secret |-> [self EXCEPT !.old_unsigned = z0, !.old_signed = z2],
         signature |-> Add(z2, self.old_signed), multiplied |-> z0]

\* A plausible slip in sign_once: the shares are applied to the hashed
\* message itself, and the remembered points are left alone.
sign_once_unblinded(self, message) ==
    LET z0 == hash_to_signature_curve(message)
        z2 == Add(Mul(z0, self.key[2]), Mul(z0, self.key[1]))
    IN  [secret |-> self, signature |-> z2, multiplied |-> z0]

\* SecretKey::sign_once: the key after the call, the signature returned, and
\* the point the two shares were multiplied by
SecretKey_sign_once(self, message) ==
    LET z0 == Sub(hash_to_signature_curve(message), self.old_unsigned)
        t == Mul(z0, self.key[1])
        z1 == Mul(z0, self.key[2])
        z2 == Add(z1, t)
        old_signed == self.old_signed
        z3 == Add(z2, old_signed)
    IN  [secret |-> [self EXCEPT !.old_unsigned = z0, !.old_signed = z2],
         signature |-> z3, multiplied |-> z0]

\* SecretKey::sign
SecretKey_sign(self, message, x) ==
    SecretKey_sign_once(SecretKey_resplit(self, x), message)

\* A plausible slip in into_public: only the first share is used.
into_public_first_share(self) == Mul(Generator, self.key[1])

\* SecretKey::into_public
SecretKey_into_public(self) ==
    LET generator == Generator
    IN  Add(Mul(generator, self.key[1]), Mul(generator, self.key[2]))

\* SecretKeyVT::into_split
SecretKeyVT_into_split(self, x, r) ==
    SecretKey_init_point_mutation(
        SecretKey_resplit(SecretKeyVT_into_split_dirty(self), x), r)

\* -------------------------------------------------------------- verification
\* E::verify_prepared on a single (publickey, message) pair
verify_prepared(signature, publickey, message) ==
    Pairing(Generator, signature) = Pairing(publickey, message)

\* A plausible slip in Signature::verify: the prepared signature and the
\* prepared message change places.
verify_swaps_signature_and_message(self, message, publickey) ==
    verify_prepared(hash_to_signature_curve(message), publickey, self)

\* Signature::verify
Signature_verify(self, message, publickey) ==
    verify_prepared(self, publickey, hash_to_signature_curve(message))

\* PublicKey::verify
PublicKey_verify(self, message, signature) ==
    Signature_verify(signature, message, self)

\* <&SignedMessage as Signed>::verify
Signed_verify(self) ==
    Signature_verify(self.signature, self.message, self.publickey)

\* SignedMessage::verify_slow
SignedMessage_verify_slow(self) ==
    LET g1_one == Generator
        message == hash_to_signature_curve(self.message)
    IN  Pairing(g1_one, self.signature) = Pairing(self.publickey, message)

\* ------------------------------------------------------------------ keypairs
\* KeypairVT::generate
KeypairVT_generate(s) ==
    [secret |-> s, public |-> SecretKeyVT_into_public(s)]

\* A plausible slip in KeypairVT::into_split: the public key is recomputed
\* from the dirty split's second share instead of being copied.
into_split_loses_public(self, x, r) ==
    [secret |-> SecretKeyVT_into_split(self.secret, x, r),
     public |-> SecretKeyVT_into_public(Zero)]

\* KeypairVT::into_split
KeypairVT_into_split(self, x, r) ==
    [secret |-> SecretKeyVT_into_split(self.secret, x, r),
     public |-> self.public]

\* KeypairVT::sign
KeypairVT_sign(self, message) ==
    [message |-> message,
     publickey |-> self.public,
     signature |-> SecretKeyVT_sign(self.secret, message)]

\* Keypair::generate
Keypair_generate(k0, k1, r) ==
    LET secret == SecretKey_generate(k0, k1, r)
    IN  [secret |-> secret, public |-> SecretKey_into_public(secret)]

\* A plausible slip in Keypair::into_vartime: only one share is collapsed.
into_vartime_first_share(self) ==
    [secret |-> self.secret.key[1], public |-> self.public]

\* Keypair::into_vartime
Keypair_into_vartime(self) ==
    [secret |-> SecretKey_into_vartime(self.secret), public |-> self.public]

\* Keypair::sign_with_rng: the keypair after the call and the SignedMessage
Keypair_sign_with_rng(self, message, x) ==
    LET s == SecretKey_sign(self.secret, message, x)
    IN  [keypair |-> [self EXCEPT !.secret = s.secret],
         signed |-> [message |-> message,
                     publickey |-> self.public,
                     signature |-> s.signature]]

\* The same call through the default ThreadRng, Keypair::sign
Keypair_sign(self, message, x) == Keypair_sign_with_rng(self, message, x)

\* ------------------------------------------------------------------- states
\* Fields of the key objects the program does not hold at the moment.
NoSecretKey == [key |-> <<Zero, Zero>>, old_unsigned |-> Zero, old_signed |-> Zero]

keypair == [secret |-> secretkey, public |-> public]
keypair_vt == [secret |-> vtkey, public |-> public]

\* The callers that share one SecretKey, and their locals when they hold none.
Callers == {"a", "b"}
NoLocal == [message |-> good, x |-> Zero, z |-> Zero, t |-> Zero, old_signed |-> Zero]

\* The history of a key no point mutation was initialized for: the point r
\* of the latest init_point_mutation, the coefficient of r and the signed sum
\* of hashed messages in old_unsigned, the resplits since the shares were
\* last multiplied, the operation that changed the key last, the calls begun
\* on a shared key and whether two of them ever overlapped.
NoHistory == [r |-> Zero, coefficient |-> 0, hashed |-> Zero, resplits |-> 0,
              last |-> "none", calls |-> 0, overlapped |-> FALSE]

IsSplit == kind \in {"SecretKey", "Keypair"}
IsVT == kind \in {"SecretKeyVT", "KeypairVT"}

Init ==
    /\ kind = "none"
    /\ vtkey = Zero
    /\ secretkey = NoSecretKey
    /\ public = Zero
    /\ logical = Zero
    /\ signed = {}
    /\ ret = [op |-> "none"]
    /\ lock = "free"
    /\ pc = [c \in Callers |-> "idle"]
    /\ local = [c \in Callers |-> NoLocal]
    /\ result = [c \in Callers |-> {}]
    /\ history = NoHistory

\* ------------------------------------------------------------- constructors
\* SecretKeyVT::generate
Do_SecretKeyVT_generate(s) ==
    /\ kind = "none"
    /\ kind' = "SecretKeyVT"
    /\ vtkey' = s
    /\ logical' = s
    /\ ret' = [op |-> "SecretKeyVT::generate"]
    /\ UNCHANGED <<secretkey, public, signed>>
    /\ UNCHANGED shared

\* KeypairVT::generate
Do_KeypairVT_generate(s) ==
    /\ kind = "none"
    /\ kind' = "KeypairVT"
    /\ vtkey' = KeypairVT_generate(s).secret
    /\ public' = KeypairVT_generate(s).public
    /\ logical' = s
    /\ ret' = [op |-> "KeypairVT::generate"]
    /\ UNCHANGED <<secretkey, signed>>
    /\ UNCHANGED shared

\* SecretKey::generate_dirty
Do_SecretKey_generate_dirty(k0, k1) ==
    /\ kind = "none"
    /\ kind' = "SecretKey"
    /\ secretkey' = SecretKey_generate_dirty(k0, k1)
    /\ logical' = Add(k0, k1)
    /\ ret' = [op |-> "SecretKey::generate_dirty"]
    /\ UNCHANGED <<vtkey, public, signed>>
    /\ UNCHANGED shared

\* SecretKey::generate
Do_SecretKey_generate(k0, k1, r) ==
    /\ kind = "none"
    /\ kind' = "SecretKey"
    /\ secretkey' = SecretKey_generate(k0, k1, r)
    /\ logical' = Add(k0, k1)
    /\ ret' = [op |-> "SecretKey::generate"]
    /\ UNCHANGED <<vtkey, public, signed>>
    /\ UNCHANGED shared

\* Keypair::generate
Do_Keypair_generate(k0, k1, r) ==
    /\ kind = "none"
    /\ kind' = "Keypair"
    /\ secretkey' = Keypair_generate(k0, k1, r).secret
    /\ public' = Keypair_generate(k0, k1, r).public
    /\ logical' = Add(k0, k1)
    /\ ret' = [op |-> "Keypair::generate"]
    /\ UNCHANGED <<vtkey, signed>>
    /\ UNCHANGED shared

\* -------------------------------------------------------------- conversions
\* SecretKeyVT::into_split_dirty, on the bare key or on keypair_vt.secret
Do_SecretKeyVT_into_split_dirty ==
    /\ IsVT
    /\ kind' = "SecretKey"
    /\ secretkey' = SecretKeyVT_into_split_dirty(vtkey)
    /\ vtkey' = Zero
    /\ public' = Zero
    /\ ret' = [op |-> "SecretKeyVT::into_split_dirty", from |-> vtkey]
    /\ UNCHANGED <<logical, signed>>
    /\ UNCHANGED shared

\* SecretKeyVT::into_split
Do_SecretKeyVT_into_split(x, r) ==
    /\ IsVT
    /\ kind' = "SecretKey"
    /\ secretkey' = SecretKeyVT_into_split(vtkey, x, r)
    /\ vtkey' = Zero
    /\ public' = Zero
    /\ ret' = [op |-> "SecretKeyVT::into_split", from |-> vtkey]
    /\ UNCHANGED <<logical, signed>>
    /\ UNCHANGED shared

\* KeypairVT::into_split
Do_KeypairVT_into_split(x, r) ==
    /\ kind = "KeypairVT"
    /\ kind' = "Keypair"
    /\ secretkey' = KeypairVT_into_split(keypair_vt, x, r).secret
    /\ public' = KeypairVT_into_split(keypair_vt, x, r).public
    /\ vtkey' = Zero
    /\ ret' = [op |-> "KeypairVT::into_split", from |-> keypair_vt]
    /\ UNCHANGED <<logical, signed>>
    /\ UNCHANGED shared

\* SecretKey::into_vartime, on the bare key or on keypair.secret
Do_SecretKey_into_vartime ==
    /\ IsSplit
    /\ kind' = "SecretKeyVT"
    /\ vtkey' = SecretKey_into_vartime(secretkey)
    /\ secretkey' = NoSecretKey
    /\ public' = Zero
    /\ ret' = [op |-> "SecretKey::into_vartime"]
    /\ UNCHANGED <<logical, signed>>
    /\ UNCHANGED shared

\* Keypair::into_vartime
Do_Keypair_into_vartime ==
    /\ kind = "Keypair"
    /\ kind' = "KeypairVT"
    /\ vtkey' = Keypair_into_vartime(keypair).secret
    /\ public' = Keypair_into_vartime(keypair).public
    /\ secretkey' = NoSecretKey
    /\ ret' = [op |-> "Keypair::into_vartime"]
    /\ UNCHANGED <<logical, signed>>
    /\ UNCHANGED shared

\* ------------------------------------------------------ SecretKey operations
\* SecretKey::init_point_mutation, on the bare key or on keypair.secret
Do_SecretKey_init_point_mutation(r) ==
    /\ IsSplit
    /\ secretkey' = SecretKey_init_point_mutation(secretkey, r)
    /\ ret' = [op |-> "SecretKey::init_point_mutation"]
    /\ UNCHANGED <<kind, vtkey, public, logical, signed>>
    /\ UNCHANGED shared

\* SecretKey::resplit
Do_SecretKey_resplit(x) ==
    /\ IsSplit
    /\ secretkey' = SecretKey_resplit(secretkey, x)
    /\ ret' = [op |-> "SecretKey::resplit"]
    /\ UNCHANGED <<kind, vtkey, public, logical, signed>>
    /\ UNCHANGED shared

\* SecretKey::sign_once
Do_SecretKey_sign_once(message) ==
    /\ IsSplit
    /\ secretkey' = SecretKey_sign_once(secretkey, message).secret
    /\ ret' = [op |-> "SecretKey::sign_once", message |-> message,
               signature |-> SecretKey_sign_once(secretkey, message).signature,
               remembered |-> secretkey.old_unsigned,
               multiplied |-> SecretKey_sign_once(secretkey, message).multiplied]
    /\ UNCHANGED <<kind, vtkey, public, logical, signed>>
    /\ UNCHANGED shared

\* SecretKey::sign
Do_SecretKey_sign(message, x) ==
    /\ IsSplit
    /\ secretkey' = SecretKey_sign(secretkey, message, x).secret
    /\ ret' = [op |-> "SecretKey::sign", message |-> message,
               signature |-> SecretKey_sign(secretkey, message, x).signature,
               remembered |-> secretkey.old_unsigned,
               multiplied |-> SecretKey_sign(secretkey, message, x).multiplied]
    /\ UNCHANGED <<kind, vtkey, public, logical, signed>>
    /\ UNCHANGED shared

\* SecretKey::into_public
Do_SecretKey_into_public ==
    /\ IsSplit
    /\ ret' = [op |-> "SecretKey::into_public",
               publickey |-> SecretKey_into_public(secretkey)]
    /\ UNCHANGED <<kind, vtkey, secretkey, public, logical, signed>>
    /\ UNCHANGED shared

\* ---------------------------------------------------- SecretKeyVT operations
\* SecretKeyVT::sign, on the bare key or on keypair_vt.secret
Do_SecretKeyVT_sign(message) ==
    /\ IsVT
    /\ ret' = [op |-> "SecretKeyVT::sign", message |-> message,
               signature |-> SecretKeyVT_sign(vtkey, message)]
    /\ UNCHANGED <<kind, vtkey, secretkey, public, logical, signed>>
    /\ UNCHANGED shared

\* SecretKeyVT::into_public
Do_SecretKeyVT_into_public ==
    /\ IsVT
    /\ ret' = [op |-> "SecretKeyVT::into_public",
               publickey |-> SecretKeyVT_into_public(vtkey)]
    /\ UNCHANGED <<kind, vtkey, secretkey, public, logical, signed>>
    /\ UNCHANGED shared

\* -------------------------------------------------------- keypair operations
\* Whether a SignedMessage over this message was returned before.
Repeat(message) == \E sm \in signed : sm.message = message

\* Keypair::sign_with_rng
Do_Keypair_sign_with_rng(message, x) ==
    /\ kind = "Keypair"
    /\ secretkey' = Keypair_sign_with_rng(keypair, message, x).keypair.secret
    /\ public' = Keypair_sign_with_rng(keypair, message, x).keypair.public
    /\ signed' = signed \cup {Keypair_sign_with_rng(keypair, message, x).signed}
    /\ ret' = [op |-> "Keypair::sign_with_rng", message |-> message,
               signed |-> Keypair_sign_with_rng(keypair, message, x).signed,
               repeat |-> Repeat(message)]
    /\ UNCHANGED <<kind, vtkey, logical>>
    /\ UNCHANGED shared

\* Keypair::sign
Do_Keypair_sign(message, x) ==
    /\ kind = "Keypair"
    /\ secretkey' = Keypair_sign(keypair, message, x).keypair.secret
    /\ public' = Keypair_sign(keypair, message, x).keypair.public
    /\ signed' = signed \cup {Keypair_sign(keypair, message, x).signed}
    /\ ret' = [op |-> "Keypair::sign", message |-> message,
               signed |-> Keypair_sign(keypair, message, x).signed,
               repeat |-> Repeat(message)]
    /\ UNCHANGED <<kind, vtkey, logical>>
    /\ UNCHANGED shared

\* KeypairVT::sign
Do_KeypairVT_sign(message) ==
    /\ kind = "KeypairVT"
    /\ signed' = signed \cup {KeypairVT_sign(keypair_vt, message)}
    /\ ret' = [op |-> "KeypairVT::sign", message |-> message,
               signed |-> KeypairVT_sign(keypair_vt, message),
               repeat |-> Repeat(message)]
    /\ UNCHANGED <<kind, vtkey, secretkey, public, logical>>
    /\ UNCHANGED shared

\* -------------------------------------------------------------- verification
\* The inputs a verifier may hold for a SignedMessage sm: sm itself, or sm
\* with exactly one of message, public key and signature replaced.
Presented(sm) ==
    {[sm EXCEPT !.message = m] : m \in Messages}
        \cup {[sm EXCEPT !.publickey = p] : p \in Points}
        \cup {[sm EXCEPT !.signature = q] : q \in Points}

\* The SignedMessage the last call returned, handed on to a verifier.
Returned ==
    IF ret.op \in {"Keypair::sign_with_rng", "Keypair::sign", "KeypairVT::sign"}
    THEN {ret.signed} ELSE {}

\* Signature::verify
Do_Signature_verify(sm, t) ==
    /\ ret' = [op |-> "Signature::verify", of |-> sm, message |-> t.message,
               publickey |-> t.publickey, signature |-> t.signature,
               result |-> Signature_verify(t.signature, t.message, t.publickey)]
    /\ UNCHANGED <<kind, vtkey, secretkey, public, logical, signed>>
    /\ UNCHANGED shared

\* PublicKey::verify
Do_PublicKey_verify(sm, t) ==
    /\ ret' = [op |-> "PublicKey::verify", of |-> sm, message |-> t.message,
               publickey |-> t.publickey, signature |-> t.signature,
               result |-> PublicKey_verify(t.publickey, t.message, t.signature)]
    /\ UNCHANGED <<kind, vtkey, secretkey, public, logical, signed>>
    /\ UNCHANGED shared

\* <&SignedMessage as Signed>::verify
Do_Signed_verify(sm, t) ==
    /\ ret' = [op |-> "Signed::verify", of |-> sm, message |-> t.message,
               publickey |-> t.publickey, signature |-> t.signature,
               result |-> Signed_verify(t)]
    /\ UNCHANGED <<kind, vtkey, secretkey, public, logical, signed>>
    /\ UNCHANGED shared

\* ------------------------------------------------------------ specification
Next ==
    \/ \E s \in Scalars : Do_SecretKeyVT_generate(s)
    \/ \E s \in Scalars : Do_KeypairVT_generate(s)
    \/ \E k0, k1 \in Scalars : Do_SecretKey_generate_dirty(k0, k1)
    \/ \E k0, k1 \in Scalars, r \in Points : Do_SecretKey_generate(k0, k1, r)
    \/ \E k0, k1 \in Scalars, r \in Points : Do_Keypair_generate(k0, k1, r)
    \/ Do_SecretKeyVT_into_split_dirty
    \/ \E x \in Scalars, r \in Points : Do_SecretKeyVT_into_split(x, r)
    \/ \E x \in Scalars, r \in Points : Do_KeypairVT_into_split(x, r)
    \/ Do_SecretKey_into_vartime
    \/ Do_Keypair_into_vartime
    \/ \E r \in Points : Do_SecretKey_init_point_mutation(r)
    \/ \E x \in Scalars : Do_SecretKey_resplit(x)
    \/ \E m \in Messages : Do_SecretKey_sign_once(m)
    \/ \E m \in Messages, x \in Scalars : Do_SecretKey_sign(m, x)
    \/ Do_SecretKey_into_public
    \/ \E m \in Messages : Do_SecretKeyVT_sign(m)
    \/ Do_SecretKeyVT_into_public
    \/ \E m \in Messages, x \in Scalars : Do_Keypair_sign_with_rng(m, x)
    \/ \E m \in Messages, x \in Scalars : Do_Keypair_sign(m, x)
    \/ \E m \in Messages : Do_KeypairVT_sign(m)
    \/ \E sm \in Returned : \E t \in Presented(sm) : Do_Signature_verify(sm, t)
    \/ \E sm \in Returned : \E t \in Presented(sm) : Do_PublicKey_verify(sm, t)
    \/ \E sm \in Returned : \E t \in Presented(sm) : Do_Signed_verify(sm, t)

Spec == Init /\ [][Next]_vars

\* ------------------------------------------------- callers of a shared key
\* Several callers sign with one SecretKey behind a lock (the RefCell / Mutex
\* of the SecretKey documentation): SecretKey::sign line by line.

\* resplit: self.key[0] += &x
resplit_key0(self, x) == [self EXCEPT !.key[1] = Add(@, x)]

\* A plausible slip in resplit: the second share is moved the same way.
resplit_key1_added(self, x) == [self EXCEPT !.key[2] = Add(@, x)]

\* resplit: self.key[1] -= &x
resplit_key1(self, x) == [self EXCEPT !.key[2] = Sub(@, x)]

\* sign_once: z = hash_to_signature_curve(message); z -= &self.old_unsigned
sign_once_delta(self, message) ==
    Sub(hash_to_signature_curve(message), self.old_unsigned)

\* sign_once: self.old_unsigned = z.clone()
sign_once_set_old_unsigned(self, z) == [self EXCEPT !.old_unsigned = z]

\* sign_once: t = z.clone(); t *= self.key[0]
sign_once_share0(self, z) == Mul(z, self.key[1])

\* A second share product that drops the first one.
sign_once_share1_alone(self, z, t) == Mul(z, self.key[2])

\* sign_once: z *= self.key[1]; z += &t
sign_once_share1(self, z, t) == Add(Mul(z, self.key[2]), t)

\* sign_once: self.old_signed = z.clone()
sign_once_set_old_signed(self, z) == [self EXCEPT !.old_signed = z]

\* sign_once: z += &old_signed; Signature(z)
sign_once_result(z, old_signed) == Add(z, old_signed)

InitShared ==
    /\ kind = "SecretKey"
    /\ \E k0, k1 \in Scalars, r \in Points :
          /\ secretkey = SecretKey_generate(k0, k1, r)
          /\ logical = Add(k0, k1)
    /\ vtkey = Zero
    /\ public = Zero
    /\ signed = {}
    /\ ret = [op |-> "SecretKey::generate"]
    /\ lock = "free"
    /\ pc = [c \in Callers |-> "idle"]
    /\ local = [c \in Callers |-> NoLocal]
    /\ result = [c \in Callers |-> {}]
    /\ history = NoHistory

\* secret.borrow_mut().sign(message, rng): the caller takes the lock
Sign_call(c, message) ==
    /\ pc[c] = "idle" /\ lock = "free"
    /\ lock' = c
    /\ pc' = [pc EXCEPT ![c] = "l244"]
    /\ local' = [local EXCEPT ![c] = [NoLocal EXCEPT !.message = message]]
    /\ result' = [result EXCEPT ![c] = {}]
    /\ UNCHANGED <<secretkey, single>>

\* let x = E::generate(&mut rng)
Sign_l244(c, x) ==
    /\ pc[c] = "l244"
    /\ local' = [local EXCEPT ![c].x = x]
    /\ pc' = [pc EXCEPT ![c] = "l245"]
    /\ UNCHANGED <<secretkey, lock, result, single>>

\* self.key[0] += &x
Sign_l245(c) ==
    /\ pc[c] = "l245"
    /\ secretkey' = resplit_key0(secretkey, local[c].x)
    /\ pc' = [pc EXCEPT ![c] = "l246"]
    /\ UNCHANGED <<local, lock, result, single>>

\* self.key[1] -= &x
Sign_l246(c) ==
    /\ pc[c] = "l246"
    /\ secretkey' = resplit_key1(secretkey, local[c].x)
    /\ local' = [local EXCEPT ![c].x = Zero]
    /\ pc' = [pc EXCEPT ![c] = "l255"]
    /\ UNCHANGED <<lock, result, single>>

\* let mut z = message.hash_to_signature_curve(); z -= &self.old_unsigned
Sign_l255(c) ==
    /\ pc[c] = "l255"
    /\ local' = [local EXCEPT ![c].z = sign_once_delta(secretkey, local[c].message)]
    /\ pc' = [pc EXCEPT ![c] = "l257"]
    /\ UNCHANGED <<secretkey, lock, result, single>>

\* self.old_unsigned = z.clone()
Sign_l257(c) ==
    /\ pc[c] = "l257"
    /\ secretkey' = sign_once_set_old_unsigned(secretkey, local[c].z)
    /\ pc' = [pc EXCEPT ![c] = "l258"]
    /\ UNCHANGED <<local, lock, result, single>>

\* let mut t = z.clone(); t *= self.key[0]
Sign_l258(c) ==
    /\ pc[c] = "l258"
    /\ local' = [local EXCEPT ![c].t = sign_once_share0(secretkey, local[c].z)]
    /\ pc' = [pc EXCEPT ![c] = "l260"]
    /\ UNCHANGED <<secretkey, lock, result, single>>

\* z *= self.key[1]; z += &t
Sign_l260(c) ==
    /\ pc[c] = "l260"
    /\ local' = [local EXCEPT
                   ![c].z = sign_once_share1(secretkey, local[c].z, local[c].t),
                   ![c].t = Zero]
    /\ pc' = [pc EXCEPT ![c] = "l262"]
    /\ UNCHANGED <<secretkey, lock, result, single>>

\* let old_signed = self.old_signed.clone()
Sign_l262(c) ==
    /\ pc[c] = "l262"
    /\ local' = [local EXCEPT ![c].old_signed = secretkey.old_signed]
    /\ pc' = [pc EXCEPT ![c] = "l263"]
    /\ UNCHANGED <<secretkey, lock, result, single>>

\* self.old_signed = z.clone()
Sign_l263(c) ==
    /\ pc[c] = "l263"
    /\ secretkey' = sign_once_set_old_signed(secretkey, local[c].z)
    /\ pc' = [pc EXCEPT ![c] = "l264"]
    /\ UNCHANGED <<local, lock, result, single>>

\* z += &old_signed; Signature(z): the call returns and the lock is dropped
Sign_l264(c) ==
    /\ pc[c] = "l264"
    /\ result' = [result EXCEPT ![c] =
                    {[message |-> local[c].message,
                      signature |-> sign_once_result(local[c].z, local[c].old_signed)]}]
    /\ local' = [local EXCEPT ![c] = NoLocal]
    /\ pc' = [pc EXCEPT ![c] = "idle"]
    /\ lock' = IF lock = c THEN "free" ELSE lock
    /\ UNCHANGED <<secretkey, single>>

NextShared ==
    \/ \E c \in Callers, m \in Messages : Sign_call(c, m)
    \/ \E c \in Callers, x \in Scalars : Sign_l244(c, x)
    \/ \E c \in Callers : Sign_l245(c)
    \/ \E c \in Callers : Sign_l246(c)
    \/ \E c \in Callers : Sign_l255(c)
    \/ \E c \in Callers : Sign_l257(c)
    \/ \E c \in Callers : Sign_l258(c)
    \/ \E c \in Callers : Sign_l260(c)
    \/ \E c \in Callers : Sign_l262(c)
    \/ \E c \in Callers : Sign_l263(c)
    \/ \E c \in Callers : Sign_l264(c)

SpecShared == InitShared /\ [][NextShared]_vars

\* --------------------------------------------- callers that do not serialize
\* The same calls on a key shared with nothing to serialize them: a caller
\* enters sign while another is inside it, and their lines interleave. At
\* most MaxCalls calls are made in all.
MaxCalls == 2

\* secret.sign(message, rng) with no lock taken
Sign_call_unserialized(c, message) ==
    /\ pc[c] = "idle"
    /\ history.calls < MaxCalls
    /\ pc' = [pc EXCEPT ![c] = "l244"]
    /\ local' = [local EXCEPT ![c] = [NoLocal EXCEPT !.message = message]]
    /\ result' = [result EXCEPT ![c] = {}]
    /\ history' = [history EXCEPT
                     !.calls = @ + 1,
                     !.overlapped = @ \/ \E d \in Callers \ {c} : pc[d] # "idle"]
    /\ UNCHANGED <<kind, vtkey, secretkey, public, logical, signed, ret, lock>>

NextUnserialized ==
    \/ \E c \in Callers, m \in Messages : Sign_call_unserialized(c, m)
    \/ \E c \in Callers, x \in Scalars : Sign_l244(c, x)
    \/ \E c \in Callers : Sign_l245(c)
    \/ \E c \in Callers : Sign_l246(c)
    \/ \E c \in Callers : Sign_l255(c)
    \/ \E c \in Callers : Sign_l257(c)
    \/ \E c \in Callers : Sign_l258(c)
    \/ \E c \in Callers : Sign_l260(c)
    \/ \E c \in Callers : Sign_l262(c)
    \/ \E c \in Callers : Sign_l263(c)
    \/ \E c \in Callers : Sign_l264(c)

SpecUnserialized == InitShared /\ [][NextUnserialized]_vars

\* ------------------------------------------------- verification of any input
\* A verifier is handed any message, public key and signature.
SignedMessages == [message : Messages, publickey : Points, signature : Points]

\* SignedMessage::verify_slow
Do_verify_slow(t) ==
    /\ ret' = [op |-> "SignedMessage::verify_slow", of |-> t, message |-> t.message,
               publickey |-> t.publickey, signature |-> t.signature,
               result |-> SignedMessage_verify_slow(t)]
    /\ UNCHANGED <<kind, vtkey, secretkey, public, logical, signed>>
    /\ UNCHANGED shared

NextVerify ==
    \/ \E t \in SignedMessages : Do_Signature_verify(t, t)
    \/ \E t \in SignedMessages : Do_PublicKey_verify(t, t)
    \/ \E t \in SignedMessages : Do_Signed_verify(t, t)
    \/ \E t \in SignedMessages : Do_verify_slow(t)

SpecVerify == Init /\ [][NextVerify]_vars

\* -------------------------------------------------------------------- codec
\* The curve variants and the two wrapper types the macros are instantiated for.
Variants == {"UsualBLS", "TinyBLS"}
Wrappers == {"Signature", "PublicKey"}

\* E::SignatureGroup / E::PublicKeyGroup of a variant: UsualBLS signs in G2,
\* TinyBLS in G1.
GroupOf(wrapper, variant) ==
    IF (wrapper = "Signature") = (variant = "UsualBLS") THEN "G2" ELSE "G1"

\* The canonical (compressed) and the uncompressed serialized sizes of a group.
compressed_size(group) == IF group = "G1" THEN 48 ELSE 96
uncompressed_size(group) == IF group = "G1" THEN 96 ELSE 192

\* $size of the zbls_serialization! instantiations
ArraySize(wrapper, variant) ==
    CASE wrapper = "Signature" /\ variant = "UsualBLS" -> 96
      [] wrapper = "Signature" /\ variant = "TinyBLS" -> 48
      [] wrapper = "PublicKey" /\ variant = "UsualBLS" -> 48
      [] wrapper = "PublicKey" /\ variant = "TinyBLS" -> 96

\* A byte string, by its length, its compression flag and what its
\* coordinate bytes hold: a point of the subgroup, or bytes the decoder rejects.
BodyKinds == {"NotOnCurve", "NotInSubgroup", "CoordinateDecodingError"}
Bodies == {[kind |-> "point", value |-> q] : q \in Points}
              \cup {[kind |-> k, value |-> Zero] : k \in BodyKinds}
Lengths == {0, 48, 96, 192}
ByteStrings == [len : Lengths, form : {"compressed", "uncompressed"}, body : Bodies]
EmptyBytes == [len |-> 0, form |-> "compressed", body |-> [kind |-> "point", value |-> Zero]]

\* Result<T, GroupDecodingError>, and a call that aborts
Ok(v) == [outcome |-> "ok", value |-> v]
Err(k) == [outcome |-> "err", error |-> k]
Panic == [outcome |-> "panic"]

\* <Affine as CanonicalDeserialize>::deserialize: the validating decoder of
\* the canonical compressed form
deserialize(bytes, group) ==
    IF bytes.len # compressed_size(group) THEN Err("UnexpectedInformation")
    ELSE IF bytes.form # "compressed" THEN Err("UnexpectedCompressionMode")
    ELSE IF bytes.body.kind # "point" THEN Err(bytes.body.kind)
    ELSE Ok(bytes.body.value)

\* affine.into_compressed()
into_compressed(affine, group) ==
    [len |-> compressed_size(group), form |-> "compressed",
     body |-> [kind |-> "point", value |-> affine]]

\* affine.serialize_uncompressed(buffer)
serialize_uncompressed(affine, group) ==
    [len |-> uncompressed_size(group), form |-> "uncompressed",
     body |-> [kind |-> "point", value |-> affine]]

\* $encodedwrapper::new
EncodedPoint_new(pre_serialized_point) == [serialized_point |-> pre_serialized_point]

\* EncodedPoint::empty: the derived Default, an empty Vec<u8>
EncodedPoint_empty == [serialized_point |-> EmptyBytes]

\* EncodedPoint::into_affine
EncodedPoint_into_affine(self, group) == deserialize(self.serialized_point, group)

\* EncodedPoint::from_affine
EncodedPoint_from_affine(affine, group) ==
    [EncodedPoint_empty EXCEPT
       !.serialized_point = serialize_uncompressed(affine, group)]

\* $wrapper::compress
compress(self, group) == EncodedPoint_new(into_compressed(self, group))

\* A plausible slip in decompress: a decoding error becomes the default point.
decompress_defaults_on_error(compressed, group) ==
    LET affine == EncodedPoint_into_affine(compressed, group)
    IN  IF affine.outcome = "ok" THEN Ok(affine.value) ELSE Ok(Zero)

\* $wrapper::decompress
decompress(compressed, group) ==
    LET affine == EncodedPoint_into_affine(compressed, group)
    IN  IF affine.outcome = "ok" THEN Ok(affine.value) ELSE affine

\* $wrapper::decompress_from_slice: the result, and whether the slice was
\* copied and parsed
decompress_from_slice(slice, group) ==
    LET compressed == EncodedPoint_empty
    IN  IF slice.len # compressed.serialized_point.len
        THEN [result |-> Err("UnexpectedInformation"), parsed |-> FALSE]
        ELSE [result |-> decompress([compressed EXCEPT !.serialized_point = slice], group),
              parsed |-> TRUE]

\* $wrapper::to_bytes: copy_from_slice aborts when the lengths differ
to_bytes(self, wrapper, variant) ==
    LET encoded == EncodedPoint_from_affine(self, GroupOf(wrapper, variant))
    IN  IF encoded.serialized_point.len # ArraySize(wrapper, variant)
        THEN Panic
        ELSE Ok(encoded.serialized_point)

\* $wrapper::from_bytes
from_bytes(bytes, wrapper, variant) ==
    LET encoded_signature == EncodedPoint_new(bytes)
        affine == EncodedPoint_into_affine(encoded_signature, GroupOf(wrapper, variant))
    IN  IF affine.outcome = "ok" THEN Ok(affine.value) ELSE affine

\* $wrapper::compress
Do_compress(self, wrapper, variant) ==
    /\ ret' = [op |-> "compress", wrapper |-> wrapper, variant |-> variant,
               point |-> self, outcome |-> "ok",
               value |-> compress(self, GroupOf(wrapper, variant))]
    /\ UNCHANGED <<kind, vtkey, secretkey, public, logical, signed>>
    /\ UNCHANGED shared

\* EncodedPoint::from_affine
Do_from_affine(affine, wrapper, variant) ==
    /\ ret' = [op |-> "from_affine", wrapper |-> wrapper, variant |-> variant,
               point |-> affine, outcome |-> "ok",
               value |-> EncodedPoint_from_affine(affine, GroupOf(wrapper, variant))]
    /\ UNCHANGED <<kind, vtkey, secretkey, public, logical, signed>>
    /\ UNCHANGED shared

\* $wrapper::decompress
Do_decompress(bytes, wrapper, variant) ==
    /\ ret' = [op |-> "decompress", wrapper |-> wrapper, variant |-> variant,
               bytes |-> bytes, parsed |-> TRUE,
               result |-> decompress(EncodedPoint_new(bytes), GroupOf(wrapper, variant))]
    /\ UNCHANGED <<kind, vtkey, secretkey, public, logical, signed>>
    /\ UNCHANGED shared

\* $wrapper::decompress_from_slice
Do_decompress_from_slice(slice, wrapper, variant) ==
    /\ ret' = [op |-> "decompress_from_slice", wrapper |-> wrapper,
               variant |-> variant, bytes |-> slice,
               parsed |-> decompress_from_slice(slice, GroupOf(wrapper, variant)).parsed,
               result |-> decompress_from_slice(slice, GroupOf(wrapper, variant)).result]
    /\ UNCHANGED <<kind, vtkey, secretkey, public, logical, signed>>
    /\ UNCHANGED shared

\* $wrapper::to_bytes
Do_to_bytes(self, wrapper, variant) ==
    /\ ret' = [op |-> "to_bytes", wrapper |-> wrapper, variant |-> variant,
               point |-> self, result |-> to_bytes(self, wrapper, variant)]
    /\ UNCHANGED <<kind, vtkey, secretkey, public, logical, signed>>
    /\ UNCHANGED shared

\* $wrapper::from_bytes, of an array [u8; $size]
Do_from_bytes(bytes, wrapper, variant) ==
    /\ bytes.len = ArraySize(wrapper, variant)
    /\ ret' = [op |-> "from_bytes", wrapper |-> wrapper, variant |-> variant,
               bytes |-> bytes, parsed |-> TRUE,
               result |-> from_bytes(bytes, wrapper, variant)]
    /\ UNCHANGED <<kind, vtkey, secretkey, public, logical, signed>>
    /\ UNCHANGED shared

NextCodec ==
    \/ \E q \in Points, w \in Wrappers, v \in Variants : Do_compress(q, w, v)
    \/ \E q \in Points, w \in Wrappers, v \in Variants : Do_from_affine(q, w, v)
    \/ \E b \in ByteStrings, w \in Wrappers, v \in Variants : Do_decompress(b, w, v)
    \/ \E b \in ByteStrings, w \in Wrappers, v \in Variants :
          Do_decompress_from_slice(b, w, v)
    \/ \E q \in Points, w \in Wrappers, v \in Variants : Do_to_bytes(q, w, v)
    \/ \E b \in ByteStrings, w \in Wrappers, v \in Variants : Do_from_bytes(b, w, v)

SpecCodec == Init /\ [][NextCodec]_vars

\* ---------------------------------------------------------------------- VRF
\* Byte strings as sequences of bytes, for what the hash absorbs.
Alphabet == {"m", "s", "g"}
MaxContextLen == 2
Contexts == UNION {[1..n -> Alphabet] : n \in 0..MaxContextLen}

\* The Out types make_bytes is asked for, by their length in bytes.
OutputLengths == {16, 32}

\* self.message.0[..]: the bytes of the message payload
message_bytes(message) ==
    CASE message.payload = "test message" ->
           <<"t", "e", "s", "t", " ", "m", "e", "s", "s", "a", "g", "e">>
      [] message.payload = "wrong message" ->
           <<"w", "r", "o", "n", "g", " ", "m", "e", "s", "s", "a", "g", "e">>
      [] message.payload = "msg" -> <<"m", "s", "g">>
      [] message.payload = "" -> <<>>

\* The content of a serialized point as the bytes handed to the hash: a block
\* of fixed length for its group, one block for each point.
octets(bytes) ==
    <<bytes.form, ToString(bytes.len), bytes.body.kind, ToString(bytes.body.value)>>

\* affine.serialize_uncompressed(&mut buffer[..]): fails on a buffer too short
serialize_uncompressed_into(affine, group, buffer_len) ==
    IF buffer_len < uncompressed_size(group) THEN Err("IoError")
    ELSE Ok(serialize_uncompressed(affine, group))

\* Shake128::default(), Input::input and xof_result().read(out): the sponge
\* holds what it absorbed; its output is taken as an injective function of
\* that and of the number of bytes squeezed.
Shake128_default == <<>>
input(h, data) == h \o data
xof_result_read(h, n) == [absorbed |-> h, len |-> n]

\* A plausible slip in vrf_hash: the public key is hashed along.
vrf_hash_absorbs_publickey(self, variant, h) ==
    LET group == GroupOf("Signature", variant)
        h1 == input(h, <<"m", "s", "g">>)
        h2 == input(h1, message_bytes(self.message))
        h3 == input(h2, <<"o", "u", "t">>)
        h4 == input(h3, <<ToString(self.publickey)>>)
        serialized_signature ==
            serialize_uncompressed_into(self.signature, group, uncompressed_size(group))
    IN  IF serialized_signature.outcome # "ok" THEN Panic
        ELSE Ok(input(h4, octets(serialized_signature.value)))

\* A plausible slip in vrf_hash: the compressed wire form of the signature
\* is hashed.
vrf_hash_compressed_signature(self, variant, h) ==
    LET group == GroupOf("Signature", variant)
        h1 == input(h, <<"m", "s", "g">>)
        h2 == input(h1, message_bytes(self.message))
        h3 == input(h2, <<"o", "u", "t">>)
    IN  Ok(input(h3, octets(into_compressed(self.signature, group))))

\* A plausible slip in vrf_hash: the signature is not hashed.
vrf_hash_without_signature(self, variant, h) ==
    LET h1 == input(h, <<"m", "s", "g">>)
        h2 == input(h1, message_bytes(self.message))
    IN  Ok(input(h2, <<"o", "u", "t">>))

\* SignedMessage::vrf_hash: the hash state after the four inputs; the
\* serialization of the signature is unwrapped.
vrf_hash(self, variant, h) ==
    LET group == GroupOf("Signature", variant)
        h1 == input(h, <<"m", "s", "g">>)
        h2 == input(h1, message_bytes(self.message))
        h3 == input(h2, <<"o", "u", "t">>)
        affine_signature == self.signature
        serialized_signature ==
            serialize_uncompressed_into(affine_signature, group, uncompressed_size(group))
    IN  IF serialized_signature.outcome # "ok" THEN Panic
        ELSE Ok(input(h3, octets(serialized_signature.value)))

\* A plausible slip in make_bytes: the context is not absorbed.
make_bytes_without_context(self, variant, context, n) ==
    LET t == Shake128_default
        hashed == vrf_hash(self, variant, t)
    IN  IF hashed.outcome # "ok" THEN Panic
        ELSE Ok(xof_result_read(hashed.value, n))

\* SignedMessage::make_bytes::<Out>, Out of n bytes
make_bytes(self, variant, context, n) ==
    LET t == input(Shake128_default, context)
        hashed == vrf_hash(self, variant, t)
    IN  IF hashed.outcome # "ok" THEN Panic
        ELSE Ok(xof_result_read(hashed.value, n))

\* ChaCha8Rng::from_seed
ChaCha8Rng_from_seed(seed) == [seed |-> seed]

\* SignedMessage::make_chacharng
make_chacharng(self, variant, context) ==
    LET bytes == make_bytes(self, variant, context, 32)
    IN  IF bytes.outcome # "ok" THEN Panic
        ELSE Ok(ChaCha8Rng_from_seed(bytes.value))

\* A SignedMessage of any content is at hand.
InitVRF ==
    /\ kind = "none"
    /\ vtkey = Zero
    /\ secretkey = NoSecretKey
    /\ public = Zero
    /\ logical = Zero
    /\ \E t \in SignedMessages : signed = {t}
    /\ ret = [op |-> "none"]
    /\ lock = "free"
    /\ pc = [c \in Callers |-> "idle"]
    /\ local = [c \in Callers |-> NoLocal]
    /\ result = [c \in Callers |-> {}]
    /\ history = NoHistory

\* SignedMessage::make_bytes
Do_make_bytes(self, variant, context, n) ==
    /\ ret' = [op |-> "SignedMessage::make_bytes", of |-> self, variant |-> variant,
               context |-> context, n |-> n,
               result |-> make_bytes(self, variant, context, n)]
    /\ UNCHANGED <<kind, vtkey, secretkey, public, logical, signed>>
    /\ UNCHANGED shared

\* SignedMessage::make_chacharng
Do_make_chacharng(self, variant, context) ==
    /\ ret' = [op |-> "SignedMessage::make_chacharng", of |-> self,
               variant |-> variant, context |-> context, n |-> 32,
               result |-> make_chacharng(self, variant, context)]
    /\ UNCHANGED <<kind, vtkey, secretkey, public, logical, signed>>
    /\ UNCHANGED shared

NextVRF ==
    \/ \E self \in signed, v \in Variants, c \in Contexts, n \in OutputLengths :
          Do_make_bytes(self, v, c, n)
    \/ \E self \in signed, v \in Variants, c \in Contexts : Do_make_chacharng(self, v, c)

SpecVRF == InitVRF /\ [][NextVRF]_vars

\* Inputs that bring a tag into the context or the payload: a context that
\* is the tag "msg" itself, an empty payload and the payload "msg".
StreamContexts == Contexts \cup {<<"m", "s", "g">>}
StreamMessages == {[context |-> "ctx", payload |-> ""],
                   [context |-> "ctx", payload |-> "msg"]}
StreamInputs == [message : Messages \cup StreamMessages, publickey : {Generator},
                 signature : Points]

\* A SignedMessage over any of these payloads is at hand.
InitStream ==
    /\ kind = "none"
    /\ vtkey = Zero
    /\ secretkey = NoSecretKey
    /\ public = Zero
    /\ logical = Zero
    /\ \E t \in StreamInputs : signed = {t}
    /\ ret = [op |-> "none"]
    /\ lock = "free"
    /\ pc = [c \in Callers |-> "idle"]
    /\ local = [c \in Callers |-> NoLocal]
    /\ result = [c \in Callers |-> {}]
    /\ history = NoHistory

NextStream ==
    \E self \in signed, v \in Variants, c \in StreamContexts, n \in OutputLengths :
        Do_make_bytes(self, v, c, n)

SpecStream == InitStream /\ [][NextStream]_vars

\* ------------------------------------------------- scalar representations
\* <E::Scalar as PrimeField>::BigInt: a big integer of ReprBits bits, least
\* significant first.
ReprBits == 3
Reprs == [1..ReprBits -> {0, 1}]

RECURSIVE value_upto(_, _)
value_upto(repr, n) ==
    IF n = 0 THEN 0 ELSE value_upto(repr, n - 1) + repr[n] * 2^(n - 1)

\* The integer a big integer stands for.
value(repr) == value_upto(repr, ReprBits)

\* Option<T>
None == <<>>
Some(v) == <<v>>

\* PrimeField::into_repr
PrimeField_into_repr(x) == [i \in 1..ReprBits |-> (x \div 2^(i - 1)) % 2]

\* PrimeField::from_repr: a field element for a representation below the
\* modulus, and none otherwise
PrimeField_from_repr(repr) ==
    IF value(repr) < Order THEN Some(value(repr)) ELSE None

\* SecretKeyVT::to_repr
SecretKeyVT_to_repr(self) == PrimeField_into_repr(self)

\* A plausible slip in from_repr: the representation is reduced, never refused.
from_repr_reduces(repr) == Some(value(repr) % Order)

\* SecretKeyVT::from_repr
SecretKeyVT_from_repr(repr) ==
    LET x == PrimeField_from_repr(repr)
    IN  IF x = None THEN None ELSE Some(x[1])

\* SecretKeyVT::from_repr
Do_SecretKeyVT_from_repr(repr) ==
    /\ kind = "none"
    /\ IF SecretKeyVT_from_repr(repr) = None
       THEN UNCHANGED <<kind, vtkey, logical>>
       ELSE /\ kind' = "SecretKeyVT"
            /\ vtkey' = SecretKeyVT_from_repr(repr)[1]
            /\ logical' = SecretKeyVT_from_repr(repr)[1]
    /\ ret' = [op |-> "SecretKeyVT::from_repr", repr |-> repr,
               result |-> SecretKeyVT_from_repr(repr)]
    /\ UNCHANGED <<secretkey, public, signed>>
    /\ UNCHANGED shared

\* SecretKeyVT::to_repr
Do_SecretKeyVT_to_repr ==
    /\ IsVT
    /\ ret' = [op |-> "SecretKeyVT::to_repr", result |-> SecretKeyVT_to_repr(vtkey)]
    /\ UNCHANGED <<kind, vtkey, secretkey, public, logical, signed>>
    /\ UNCHANGED shared

NextRepr ==
    \/ \E s \in Scalars : Do_SecretKeyVT_generate(s)
    \/ \E s \in Scalars : Do_KeypairVT_generate(s)
    \/ \E repr \in Reprs : Do_SecretKeyVT_from_repr(repr)
    \/ Do_SecretKeyVT_to_repr
    \/ \E m \in Messages : Do_SecretKeyVT_sign(m)
    \/ \E m \in Messages : Do_KeypairVT_sign(m)
    \/ Do_SecretKeyVT_into_public

SpecRepr == Init /\ [][NextRepr]_vars

\* ------------------------------------------------- a key with its history
\* The SecretKey operations again, on the key together with its history: each
\* does to the key what the operation does, and writes down what it did.
MaxResplits == 2

tracked == [secret |-> secretkey, history |-> history]

\* The point r taken coefficient times, coefficient being 1, -1 or 0.
Scaled(r, coefficient) ==
    IF coefficient = 1 THEN r
    ELSE IF coefficient = -1 THEN Sub(Zero, r)
    ELSE Zero

\* A plausible slip in init_point_mutation: the drawn point is signed, but
\* not remembered as old_unsigned.
init_point_mutation_forgets_point(self, r) ==
    [secret |-> [self.secret EXCEPT
                   !.old_signed = Add(Mul(r, self.secret.key[1]),
                                      Mul(r, self.secret.key[2]))],
     history |-> [self.history EXCEPT !.r = r, !.coefficient = 1, !.hashed = Zero,
                                      !.last = "init_point_mutation"]]

\* SecretKey::init_point_mutation: r is the point drawn
Tracked_init_point_mutation(self, r) ==
    [secret |-> SecretKey_init_point_mutation(self.secret, r),
     history |-> [self.history EXCEPT !.r = r, !.coefficient = 1, !.hashed = Zero,
                                      !.last = "init_point_mutation"]]

\* SecretKey::resplit: one more resplit since the shares were multiplied
Tracked_resplit(self, x) ==
    [secret |-> SecretKey_resplit(self.secret, x),
     history |-> [self.history EXCEPT !.resplits = @ + 1, !.last = "resplit"]]

\* SecretKey::sign_once: old_unsigned becomes H(message) - old_unsigned, the
\* shares are multiplied, and the count of resplits starts again
Tracked_sign_once(self, message) ==
    [secret |-> SecretKey_sign_once(self.secret, message).secret,
     signature |-> SecretKey_sign_once(self.secret, message).signature,
     multiplied |-> SecretKey_sign_once(self.secret, message).multiplied,
     split |-> self.secret.key,
     resplits |-> self.history.resplits,
     history |-> [self.history EXCEPT
                    !.coefficient = 0 - @,
                    !.hashed = Sub(hash_to_signature_curve(message), @),
                    !.resplits = 0,
                    !.last = "sign_once"]]

\* A plausible slip in sign: the resplit is left out.
sign_without_resplit(self, message, x) == Tracked_sign_once(self, message)

\* SecretKey::sign
Tracked_sign(self, message, x) ==
    Tracked_sign_once(Tracked_resplit(self, x), message)

\* SecretKey::generate
Tracked_generate(k0, k1, r) ==
    Tracked_init_point_mutation(
        [secret |-> SecretKey_generate_dirty(k0, k1), history |-> NoHistory], r)

\* A plausible slip in into_split: the point mutation is initialized before
\* the resplit.
into_split_mutates_first(self, x, r) ==
    LET s == [secret |-> SecretKeyVT_into_split_dirty(self), history |-> NoHistory]
    IN  Tracked_resplit(Tracked_init_point_mutation(s, r), x)

\* SecretKeyVT::into_split
Tracked_into_split(self, x, r) ==
    LET s == [secret |-> SecretKeyVT_into_split_dirty(self), history |-> NoHistory]
    IN  Tracked_init_point_mutation(Tracked_resplit(s, x), r)

\* SecretKey::generate
Do_Tracked_generate(k0, k1, r) ==
    /\ kind = "none"
    /\ kind' = "SecretKey"
    /\ secretkey' = Tracked_generate(k0, k1, r).secret
    /\ history' = Tracked_generate(k0, k1, r).history
    /\ logical' = Add(k0, k1)
    /\ ret' = [op |-> "SecretKey::generate"]
    /\ UNCHANGED <<vtkey, public, signed, lock, pc, local, result>>

\* SecretKeyVT::into_split
Do_Tracked_into_split(x, r) ==
    /\ kind = "SecretKeyVT"
    /\ kind' = "SecretKey"
    /\ secretkey' = Tracked_into_split(vtkey, x, r).secret
    /\ history' = Tracked_into_split(vtkey, x, r).history
    /\ vtkey' = Zero
    /\ ret' = [op |-> "SecretKeyVT::into_split", from |-> vtkey, x |-> x, r |-> r]
    /\ UNCHANGED <<public, logical, signed, lock, pc, local, result>>

\* SecretKey::init_point_mutation
Do_Tracked_init_point_mutation(r) ==
    /\ kind = "SecretKey"
    /\ secretkey' = Tracked_init_point_mutation(tracked, r).secret
    /\ history' = Tracked_init_point_mutation(tracked, r).history
    /\ ret' = [op |-> "SecretKey::init_point_mutation"]
    /\ UNCHANGED <<kind, vtkey, public, logical, signed, lock, pc, local, result>>

\* SecretKey::resplit
Do_Tracked_resplit(x) ==
    /\ kind = "SecretKey"
    /\ history.resplits < MaxResplits
    /\ secretkey' = Tracked_resplit(tracked, x).secret
    /\ history' = Tracked_resplit(tracked, x).history
    /\ ret' = [op |-> "SecretKey::resplit"]
    /\ UNCHANGED <<kind, vtkey, public, logical, signed, lock, pc, local, result>>

\* SecretKey::sign_once
Do_Tracked_sign_once(message) ==
    /\ kind = "SecretKey"
    /\ secretkey' = Tracked_sign_once(tracked, message).secret
    /\ history' = Tracked_sign_once(tracked, message).history
    /\ ret' = [op |-> "SecretKey::sign_once", message |-> message,
               signature |-> Tracked_sign_once(tracked, message).signature,
               multiplied |-> Tracked_sign_once(tracked, message).multiplied,
               before |-> history.resplits,
               resplits |-> Tracked_sign_once(tracked, message).resplits]
    /\ UNCHANGED <<kind, vtkey, public, logical, signed, lock, pc, local, result>>

\* SecretKey::sign
Do_Tracked_sign(message, x) ==
    /\ kind = "SecretKey"
    /\ secretkey' = Tracked_sign(tracked, message, x).secret
    /\ history' = Tracked_sign(tracked, message, x).history
    /\ ret' = [op |-> "SecretKey::sign", message |-> message,
               signature |-> Tracked_sign(tracked, message, x).signature,
               multiplied |-> Tracked_sign(tracked, message, x).multiplied,
               before |-> history.resplits,
               resplits |-> Tracked_sign(tracked, message, x).resplits]
    /\ UNCHANGED <<kind, vtkey, public, logical, signed, lock, pc, local, result>>

NextHistory ==
    \/ \E s \in Scalars : Do_SecretKeyVT_generate(s)
    \/ \E k0, k1 \in Scalars : Do_SecretKey_generate_dirty(k0, k1)
    \/ Do_SecretKeyVT_into_split_dirty
    \/ \E k0, k1 \in Scalars, r \in Points : Do_Tracked_generate(k0, k1, r)
    \/ \E x \in Scalars, r \in Points : Do_Tracked_into_split(x, r)
    \/ \E r \in Points : Do_Tracked_init_point_mutation(r)
    \/ \E x \in Scalars : Do_Tracked_resplit(x)
    \/ \E m \in Messages : Do_Tracked_sign_once(m)
    \/ \E m \in Messages, x \in Scalars : Do_Tracked_sign(m, x)

SpecHistory == Init /\ [][NextHistory]_vars

\* ---------------------------------------------- values borrowed by the calls
\* Every method takes its receiver by reference (&self or &mut self), so the
\* receiver stays with the caller after the call. The caller here holds a
\* Keypair, the SecretKeyVT that keypair.secret.into_vartime() returned and
\* the SignedMessages the keypair signed, calls the key operations in any
\* order and hands the SignedMessage a signing returned to a verifier or to
\* the VRF functions.
InitBorrowed ==
    /\ kind = "Keypair"
    /\ \E k0, k1 \in Scalars, r \in Points :
          /\ secretkey = Keypair_generate(k0, k1, r).secret
          /\ public = Keypair_generate(k0, k1, r).public
          /\ vtkey = SecretKey_into_vartime(Keypair_generate(k0, k1, r).secret)
          /\ logical = Add(k0, k1)
    /\ signed = {}
    /\ ret = [op |-> "SecretKey::into_vartime"]
    /\ lock = "free"
    /\ pc = [c \in Callers |-> "idle"]
    /\ local = [c \in Callers |-> NoLocal]
    /\ result = [c \in Callers |-> {}]
    /\ history = NoHistory

\* SecretKey::into_vartime(&self): the SecretKeyVT is a new value
Borrow_SecretKey_into_vartime ==
    /\ IsSplit
    /\ vtkey' = SecretKey_into_vartime(secretkey)
    /\ ret' = [op |-> "SecretKey::into_vartime"]
    /\ UNCHANGED <<kind, secretkey, public, logical, signed>>
    /\ UNCHANGED shared

\* SecretKeyVT::sign(&self) on the SecretKeyVT the caller holds
Borrow_SecretKeyVT_sign(message) ==
    /\ ret' = [op |-> "SecretKeyVT::sign", message |-> message,
               signature |-> SecretKeyVT_sign(vtkey, message)]
    /\ UNCHANGED <<kind, vtkey, secretkey, public, logical, signed>>
    /\ UNCHANGED shared

NextBorrowed ==
    \/ \E r \in Points : Do_SecretKey_init_point_mutation(r)
    \/ \E x \in Scalars : Do_SecretKey_resplit(x)
    \/ \E m \in Messages : Do_SecretKey_sign_once(m)
    \/ Do_SecretKey_into_public
    \/ Borrow_SecretKey_into_vartime
    \/ \E m \in Messages : Borrow_SecretKeyVT_sign(m)
    \/ \E m \in Messages, x \in Scalars : Do_Keypair_sign(m, x)
    \/ \E sm \in Returned : Do_Signature_verify(sm, sm)
    \/ \E sm \in Returned : Do_PublicKey_verify(sm, sm)
    \/ \E sm \in Returned : Do_Signed_verify(sm, sm)
    \/ \E self \in Returned, v \in Variants, c \in {d \in Contexts : Len(d) <= 1},
          n \in OutputLengths : Do_make_bytes(self, v, c, n)
    \/ \E self \in Returned, v \in Variants, c \in {d \in Contexts : Len(d) <= 1} :
          Do_make_chacharng(self, v, c)

SpecBorrowed == InitBorrowed /\ [][NextBorrowed]_vars

\* ------------------------------------------------------------------- claims
SignOps == {"SecretKey::sign", "SecretKey::sign_once", "SecretKeyVT::sign"}
SignedOps == {"Keypair::sign_with_rng", "Keypair::sign", "KeypairVT::sign"}
VerifyOps == {"Signature::verify", "PublicKey::verify", "Signed::verify"}

\* The signature the last call returned, if it was a signing call.
Signatures ==
    IF ret.op \in SignOps THEN {ret.signature}
    ELSE IF ret.op \in SignedOps THEN {ret.signed.signature}
    ELSE {}

Tampered == ret.message # ret.of.message \/ ret.publickey # ret.of.publickey
                \/ ret.signature # ret.of.signature

\* C1: after any sequence of operations on a protected SecretKey, sign_once(m)
\* and sign(m, rng) return, for every message and every draw, the signature
\* SecretKeyVT::sign(m) returns for into_vartime() of that key, secret*H(m).
C1_SignEquivalence ==
    /\ IsSplit =>
          \A m \in Messages :
            /\ SecretKey_sign_once(secretkey, m).signature
                  = SecretKeyVT_sign(SecretKey_into_vartime(secretkey), m)
            /\ \A x \in Scalars :
                  SecretKey_sign(secretkey, m, x).signature
                    = SecretKeyVT_sign(SecretKey_into_vartime(secretkey), m)
    /\ ret.op \in {"SecretKey::sign", "SecretKey::sign_once"} =>
          /\ ret.signature
                = SecretKeyVT_sign(SecretKey_into_vartime(secretkey), ret.message)
          /\ ret.signature = Mul(hash_to_signature_curve(ret.message), logical)

C1_Witness ==
    /\ kind = "Keypair" /\ ret.op = "SecretKey::sign"
    /\ signed # {}
    /\ secretkey.key[2] # Zero /\ secretkey.old_unsigned # Zero
    /\ ret.signature # Zero

\* C2: between operations the point-mutation state satisfies
\* old_signed == key0*old_unsigned + key1*old_unsigned == secret*old_unsigned.
C2_PointMutationInvariant ==
    IsSplit =>
      /\ secretkey.old_signed
            = Add(Mul(secretkey.old_unsigned, secretkey.key[1]),
                  Mul(secretkey.old_unsigned, secretkey.key[2]))
      /\ secretkey.old_signed = Mul(secretkey.old_unsigned, logical)

C2_Witness ==
    /\ IsSplit /\ ret.op = "SecretKey::sign_once"
    /\ secretkey.old_unsigned # Zero /\ secretkey.old_signed # Zero
    /\ secretkey.key[1] # Zero /\ secretkey.key[2] # Zero

\* C3: key0 + key1 of a SecretKey is the secret fixed at generation in every
\* reachable state, whatever scalars resplit drew.
C3_SecretPreserved ==
    IsSplit => Add(secretkey.key[1], secretkey.key[2]) = logical

C3_Witness ==
    /\ IsSplit /\ ret.op = "SecretKey::resplit"
    /\ secretkey.key[1] # logical /\ secretkey.key[2] # Zero
    /\ secretkey.old_unsigned # Zero

\* C4: every SignedMessage a Keypair or KeypairVT returned verifies through
\* Signature::verify, PublicKey::verify and Signed::verify against the
\* keypair's public key.
C4_SignedVerifies ==
    /\ \A sm \in signed :
          /\ Signature_verify(sm.signature, sm.message, sm.publickey)
          /\ PublicKey_verify(sm.publickey, sm.message, sm.signature)
          /\ Signed_verify(sm)
          /\ kind \in {"Keypair", "KeypairVT"} =>
                Signature_verify(sm.signature, sm.message, public)
    /\ (ret.op \in VerifyOps /\ ~Tampered) => ret.result

C4_Witness ==
    /\ ret.op = "Signed::verify" /\ ~Tampered /\ ret.result
    /\ Cardinality(signed) >= 2
    /\ logical # Zero

\* C5: verify returns false when the message, the public key or the
\* signature of a SignedMessage is replaced by any other value.
C5_TamperDetection ==
    (ret.op \in VerifyOps /\ Tampered) => ~ret.result

\* C6: the cached field `public` of a Keypair / KeypairVT is the public key
\* derived from its current secret, and every SignedMessage carries it.
C6_PublicCached ==
    /\ kind = "Keypair" => public = SecretKey_into_public(secretkey)
    /\ kind = "KeypairVT" => public = SecretKeyVT_into_public(vtkey)
    /\ kind \in {"Keypair", "KeypairVT"} =>
          \A sm \in signed : sm.publickey = public

C6_Witness ==
    /\ kind = "Keypair" /\ ret.op = "Keypair::sign_with_rng"
    /\ Cardinality(signed) >= 2
    /\ public # Zero /\ secretkey.key[2] # Zero
    /\ \E sm \in signed : sm.signature = SecretKeyVT_sign(logical, sm.message)

\* C7: SecretKey::into_public equals SecretKeyVT::into_public of the
\* into_vartime() form, and is the same point secret*g in every state.
C7_PublicAgrees ==
    /\ IsSplit =>
          /\ SecretKey_into_public(secretkey)
                = SecretKeyVT_into_public(SecretKey_into_vartime(secretkey))
          /\ SecretKey_into_public(secretkey) = Mul(Generator, logical)
    /\ ret.op = "SecretKey::into_public" =>
          ret.publickey = SecretKeyVT_into_public(logical)

C7_Witness ==
    /\ ret.op = "SecretKey::into_public"
    /\ secretkey.key[1] # Zero /\ secretkey.key[2] # Zero
    /\ secretkey.old_unsigned # Zero
    /\ ret.publickey # Zero

\* C8: the signature over a message depends only on the secret and the
\* message: every signing of a message, by any path, split, point-mutation
\* state and draw, returns the signature of every earlier SignedMessage over
\* it, and two SignedMessages over one message are equal.
C8_SignatureStable ==
    /\ \A a, b \in signed : a.message = b.message => a = b
    /\ \A sig \in Signatures : \A sm \in signed :
          sm.message = ret.message => sm.signature = sig

C8_Witness ==
    /\ ret.op = "Keypair::sign" /\ ret.repeat
    /\ Cardinality(signed) >= 2
    /\ secretkey.key[2] # Zero
    /\ ret.signed.signature # Zero

\* C9: into_split / into_split_dirty followed by into_vartime gives back the
\* scalar it started from, and KeypairVT::into_split followed by
\* Keypair::into_vartime the same secret and public key.
C9_RoundTrip ==
    /\ ret.op \in {"SecretKeyVT::into_split", "SecretKeyVT::into_split_dirty"} =>
          SecretKey_into_vartime(secretkey) = ret.from
    /\ ret.op = "KeypairVT::into_split" =>
          Keypair_into_vartime(keypair) = ret.from
    /\ IsVT =>
          /\ SecretKey_into_vartime(SecretKeyVT_into_split_dirty(vtkey)) = vtkey
          /\ \A x \in Scalars, r \in Points :
                SecretKey_into_vartime(SecretKeyVT_into_split(vtkey, x, r)) = vtkey
    /\ kind = "KeypairVT" =>
          \A x \in Scalars, r \in Points :
            Keypair_into_vartime(KeypairVT_into_split(keypair_vt, x, r)) = keypair_vt

C9_Witness ==
    /\ ret.op = "KeypairVT::into_split" /\ kind = "Keypair"
    /\ ret.from.secret # Zero
    /\ secretkey.key[2] # Zero /\ secretkey.old_unsigned # Zero
    /\ signed # {}

\* C10: with the callers of a shared SecretKey serialized by its lock, every
\* call, in every order of the calls, returns secret*H(its own message), and
\* key0 + key1 == secret and old_signed == secret*old_unsigned hold whenever
\* no call is in progress.
C10_SerializedSigning ==
    /\ \A c \in Callers : \A r \in result[c] :
          r.signature = Mul(hash_to_signature_curve(r.message), logical)
    /\ lock = "free" =>
          /\ Add(secretkey.key[1], secretkey.key[2]) = logical
          /\ secretkey.old_signed = Mul(secretkey.old_unsigned, logical)
          /\ secretkey.old_signed
                = Add(Mul(secretkey.old_unsigned, secretkey.key[1]),
                      Mul(secretkey.old_unsigned, secretkey.key[2]))

C10_Witness ==
    /\ lock = "free"
    /\ \E ra \in result["a"], rb \in result["b"] :
          /\ ra.message # rb.message
          /\ ra.signature # Zero /\ rb.signature # Zero
    /\ secretkey.key[2] # Zero /\ secretkey.old_unsigned # Zero

\* C11: PublicKey::verify, Signature::verify and Signed::verify return, for
\* every message, public key and signature, one and the same boolean, which
\* is true exactly when e(generator, s) == e(pk, H(m)), the value of
\* verify_slow; a signature that does not match gives false.
C11_OneVerification ==
    ret.op \in VerifyOps \cup {"SignedMessage::verify_slow"} =>
      LET t == [message |-> ret.message, publickey |-> ret.publickey,
                signature |-> ret.signature]
          identity == Pairing(Generator, ret.signature)
                        = Pairing(ret.publickey, hash_to_signature_curve(ret.message))
      IN  /\ ret.result \in BOOLEAN
          /\ ret.result = identity
          /\ Signature_verify(t.signature, t.message, t.publickey) = identity
          /\ PublicKey_verify(t.publickey, t.message, t.signature) = identity
          /\ Signed_verify(t) = identity
          /\ SignedMessage_verify_slow(t) = identity

C11_Witness ==
    /\ ret.op = "PublicKey::verify" /\ ret.result = FALSE
    /\ ret.publickey # Zero /\ ret.signature # Zero
    /\ SignedMessage_verify_slow(ret.of) = FALSE

\* C12: encoding round trip. For every PublicKey or Signature value x of
\* either variant, decompress(compress(x)) is x, and to_bytes(x) returns bytes
\* from which from_bytes gives Ok(x).
C12_EncodingRoundTrip ==
    /\ ret.op = "compress" =>
         decompress(ret.value, GroupOf(ret.wrapper, ret.variant)) = Ok(ret.point)
    /\ ret.op = "to_bytes" =>
         /\ ret.result.outcome = "ok"
         /\ from_bytes(ret.result.value, ret.wrapper, ret.variant) = Ok(ret.point)

\* C13: the wire encoding is the compressed form with the fixed length of its
\* (variant, wrapper): compress and to_bytes write exactly that many bytes, and
\* the encoded point from_affine builds has that length too.
C13_WireLength ==
    /\ ret.op \in {"compress", "from_affine"} =>
         /\ ret.value.serialized_point.len = ArraySize(ret.wrapper, ret.variant)
         /\ ret.value.serialized_point.form = "compressed"
    /\ ret.op = "to_bytes" =>
         /\ ret.result.outcome = "ok"
         /\ ret.result.value.len = ArraySize(ret.wrapper, ret.variant)
         /\ ret.result.value.form = "compressed"

\* C14: decompress_from_slice returns Err(UnexpectedInformation), without
\* copying or parsing, for a slice whose length is not the encoded size of the
\* target type; for a slice of that size it returns what decompress returns on
\* those bytes.
C14_SliceLength ==
    ret.op = "decompress_from_slice" =>
        IF ret.bytes.len # ArraySize(ret.wrapper, ret.variant)
        THEN ret.result = Err("UnexpectedInformation") /\ ~ret.parsed
        ELSE ret.result = decompress(EncodedPoint_new(ret.bytes),
                                     GroupOf(ret.wrapper, ret.variant))

DecodeOps == {"decompress", "decompress_from_slice", "from_bytes"}

\* C15: a validating decode path returns Ok only for bytes that encode a point
\* of the subgroup, and then that point; when the affine decoding of the bytes
\* was run and reported an error, that error is the result, and no value comes
\* with it.
C15_DecodeRejects ==
    ret.op \in DecodeOps =>
        LET decoded == deserialize(ret.bytes, GroupOf(ret.wrapper, ret.variant))
        IN  /\ ret.result.outcome \in {"ok", "err"}
            /\ ret.result.outcome = "ok" =>
                 /\ ret.bytes.body.kind = "point"
                 /\ ret.bytes.form = "compressed"
                 /\ ret.bytes.len = compressed_size(GroupOf(ret.wrapper, ret.variant))
                 /\ ret.result.value = ret.bytes.body.value
            /\ ret.parsed /\ decoded.outcome = "err" => ret.result = decoded
            /\ ret.result.outcome = "err" => "value" \notin DOMAIN ret.result

C15_Witness ==
    /\ ret.op = "decompress"
    /\ ret.bytes.len = compressed_size(GroupOf(ret.wrapper, ret.variant))
    /\ ret.bytes.form = "compressed"
    /\ ret.bytes.body.kind = "NotInSubgroup"
    /\ ret.result = Err("NotInSubgroup")

VRFOps == {"SignedMessage::make_bytes", "SignedMessage::make_chacharng"}

\* C16: VRF determinism. The output of make_bytes and make_chacharng is the
\* value of a function of (message, signature, context, n): calling again
\* with these gives the same output, whatever the public key; the generator
\* is seeded with the 32 bytes make_bytes returns for the context; and the
\* calls change no key, no signed message and no caller's state.
C16_VRFDeterminism ==
    /\ [](ret.op \in VRFOps =>
            /\ \A pk \in Points :
                 LET t == [ret.of EXCEPT !.publickey = pk]
                 IN  IF ret.op = "SignedMessage::make_bytes"
                     THEN make_bytes(t, ret.variant, ret.context, ret.n) = ret.result
                     ELSE make_chacharng(t, ret.variant, ret.context) = ret.result
            /\ ret.op = "SignedMessage::make_chacharng" =>
                 /\ ret.result.outcome = "ok"
                 /\ Ok(ret.result.value.seed)
                      = make_bytes(ret.of, ret.variant, ret.context, 32)
                 /\ ret.result.value.seed.len = 32)
    /\ [][ret'.op \in VRFOps =>
            UNCHANGED <<kind, vtkey, secretkey, public, logical, signed, shared>>]_vars

C16_Witness ==
    /\ ret.op = "SignedMessage::make_chacharng"
    /\ ret.of.publickey # Zero
    /\ ret.context # <<>>
    /\ ret.result.outcome = "ok"

\* C17: VRF context separation. For one SignedMessage, a context other than
\* the one given makes make_bytes absorb another byte stream, and so return
\* another output.
C17_ContextSeparation ==
    ret.op = "SignedMessage::make_bytes" =>
        /\ ret.result.outcome = "ok"
        /\ \A c \in Contexts :
             c # ret.context =>
               LET again == make_bytes(ret.of, ret.variant, c, ret.n)
               IN  /\ again.outcome = "ok"
                   /\ again.value.absorbed # ret.result.value.absorbed
                   /\ again # ret.result

C17_Witness ==
    /\ ret.op = "SignedMessage::make_bytes"
    /\ ret.context = <<"m", "s">>
    /\ make_bytes(ret.of, ret.variant, <<"m">>, ret.n) # ret.result

\* C18: SecretKeyVT::from_repr returns Some(key), the key holding the scalar
\* the representation stands for, exactly when the representation is below
\* the scalar modulus, and None otherwise, leaving no key behind; and
\* from_repr(k.to_repr()) is Some of a key holding the scalar of k.
C18_ScalarRepr ==
    /\ ret.op = "SecretKeyVT::from_repr" =>
         /\ ret.result \in {None} \cup {Some(k) : k \in Scalars}
         /\ ret.result # None <=> value(ret.repr) < Order
         /\ ret.result # None =>
              /\ ret.result = Some(value(ret.repr))
              /\ kind = "SecretKeyVT" /\ vtkey = value(ret.repr)
              /\ SecretKeyVT_to_repr(vtkey) = ret.repr
         /\ ret.result = None => kind = "none"
    /\ ret.op = "SecretKeyVT::to_repr" =>
         /\ ret.result \in Reprs
         /\ SecretKeyVT_from_repr(ret.result) = Some(vtkey)
    /\ \A k \in Scalars : SecretKeyVT_from_repr(SecretKeyVT_to_repr(k)) = Some(k)

C18_Witness ==
    /\ ret.op = "SecretKeyVT::from_repr"
    /\ value(ret.repr) >= Order
    /\ ret.result = None

\* C19: no operation ends in an abort: encoding, to_bytes and decoding each
\* end in a returned value or a typed error, for every input.
C19_NoAbort ==
    /\ ret.op \in {"compress", "from_affine"} => ret.outcome = "ok"
    /\ ret.op \in DecodeOps \cup {"to_bytes"} => ret.result.outcome \in {"ok", "err"}

SignOnceOps == {"SecretKey::sign_once", "SecretKey::sign"}

\* C20: in every sign_once execution the point key0 and key1 are multiplied
\* by is never the hashed message H(message) itself.
C20_NeverHashedPoint ==
    ret.op \in SignOnceOps =>
        ret.multiplied # hash_to_signature_curve(ret.message)

\* C20, amended: the point the shares are multiplied by is H(message) minus
\* the remembered point old_unsigned, and it is remembered in turn; it is
\* H(message) itself exactly when the remembered point is the identity, as it
\* is in a key of generate_dirty or into_split_dirty that has neither run
\* init_point_mutation nor signed.
C20_BlindedByRemembered ==
    /\ ret.op \in SignOnceOps =>
         /\ ret.multiplied = Sub(hash_to_signature_curve(ret.message), ret.remembered)
         /\ secretkey.old_unsigned = ret.multiplied
         /\ ret.multiplied = hash_to_signature_curve(ret.message)
              <=> ret.remembered = Zero
    /\ ret.op \in {"SecretKey::generate_dirty", "SecretKeyVT::into_split_dirty"} =>
         /\ secretkey.old_unsigned = Zero
         /\ \A m \in Messages :
              SecretKey_sign_once(secretkey, m).multiplied = hash_to_signature_curve(m)

C20_Witness ==
    /\ ret.op = "SecretKey::sign_once"
    /\ ret.remembered # Zero
    /\ ret.multiplied # hash_to_signature_curve(ret.message)
    /\ ret.multiplied # Zero

\* C21: for a key of SecretKey::generate or SecretKeyVT::into_split, and for
\* any key once init_point_mutation has run, with r the point it drew last:
\* after n signings old_unsigned is (-1)^n * r plus the signed sum of the
\* hashed messages signed since; the coefficient of r is 1 or -1, never 0, and
\* so it is in every point the shares are multiplied by.
C21_BlindingRemains ==
    /\ kind = "SecretKey" =>
         secretkey.old_unsigned
           = Add(Scaled(history.r, history.coefficient), history.hashed)
    /\ ret.op \in {"SecretKey::generate", "SecretKeyVT::into_split",
                   "SecretKey::init_point_mutation"} =>
         /\ history.coefficient = 1
         /\ secretkey.old_unsigned = history.r
    /\ kind = "SecretKey" /\ history.coefficient = 0 =>
         /\ history.r = Zero
         /\ \A m \in Messages : Tracked_sign_once(tracked, m).history.coefficient = 0
    /\ kind = "SecretKey" /\ history.coefficient # 0 =>
         /\ history.coefficient \in {1, -1}
         /\ \A m \in Messages :
              LET next == Tracked_sign_once(tracked, m)
              IN  /\ next.history.coefficient = 0 - history.coefficient
                  /\ next.multiplied
                       = Add(Scaled(history.r, next.history.coefficient),
                             next.history.hashed)
    /\ ret.op \in SignOnceOps /\ history.coefficient # 0 =>
         ret.multiplied = Add(Scaled(history.r, history.coefficient), history.hashed)

C21_Witness ==
    /\ ret.op = "SecretKey::sign"
    /\ history.coefficient = 1
    /\ history.r # Zero
    /\ history.hashed # Zero
    /\ secretkey.old_unsigned = Add(history.r, history.hashed)

\* C22: every signing through a protected entry point performs exactly one
\* resplit before the share multiplications of its sign_once, and no signing
\* observes the split the signing before it observed.
C22_FreshSplit ==
    /\ [](ret.op = "SecretKey::sign" => ret.resplits = ret.before + 1)
    /\ [][ret.op \in SignOnceOps /\ ret'.op = "SecretKey::sign" =>
            secretkey'.key # secretkey.key]_vars

\* C22, amended: every signing through a protected entry point performs
\* exactly one resplit before the share multiplications of its sign_once, a
\* bare sign_once none; Keypair::sign_with_rng and Keypair::sign sign through
\* SecretKey::sign; the split such a signing observes is the split before it
\* moved by the drawn scalar x, and is that same split exactly when x is 0.
C22_OneResplit ==
    /\ [](/\ ret.op = "SecretKey::sign" =>
               ret.resplits = ret.before + 1 /\ ret.resplits >= 1
          /\ ret.op = "SecretKey::sign_once" => ret.resplits = ret.before
          /\ kind = "SecretKey" =>
               \A m \in Messages, x \in Scalars :
                 LET pair == [secret |-> secretkey, public |-> public]
                 IN  /\ Keypair_sign_with_rng(pair, m, x).keypair.secret
                          = Tracked_sign(tracked, m, x).secret
                     /\ Keypair_sign(pair, m, x) = Keypair_sign_with_rng(pair, m, x)
                     /\ Tracked_sign(tracked, m, x).split
                          = SecretKey_resplit(secretkey, x).key
                     /\ Tracked_sign(tracked, m, x).resplits = history.resplits + 1)
    /\ [][ret'.op = "SecretKey::sign" =>
            \E x \in Scalars :
              /\ secretkey'.key = <<Add(secretkey.key[1], x), Sub(secretkey.key[2], x)>>
              /\ secretkey'.key = secretkey.key <=> x = Zero]_vars

C22_Witness ==
    /\ ret.op = "SecretKey::sign"
    /\ ret.before = 0
    /\ ret.resplits = 1
    /\ history.resplits = 0
    /\ history.coefficient = -1

\* C23: into_split_dirty returns key0 = secret, key1 = 0 and the identity in
\* old_unsigned and old_signed; into_split resplits and afterwards initializes
\* the point mutation, so it returns the shares (secret + x, -x), old_unsigned
\* = r and old_signed = secret * r for the drawn x and r; SecretKey::generate
\* too returns only after init_point_mutation has run.
C23_SplitConstruction ==
    /\ ret.op = "SecretKeyVT::into_split_dirty" =>
         /\ secretkey = [key |-> <<ret.from, Zero>>, old_unsigned |-> Zero,
                         old_signed |-> Zero]
         /\ history = NoHistory
    /\ ret.op = "SecretKeyVT::into_split" =>
         /\ secretkey = [key |-> <<Add(ret.from, ret.x), Sub(Zero, ret.x)>>,
                         old_unsigned |-> ret.r,
                         old_signed |-> Mul(ret.r, ret.from)]
         /\ secretkey = SecretKeyVT_into_split(ret.from, ret.x, ret.r)
         /\ history.resplits = 1
         /\ history.last = "init_point_mutation"
         /\ history.r = ret.r /\ history.coefficient = 1
    /\ ret.op = "SecretKey::generate" =>
         /\ history.last = "init_point_mutation"
         /\ history.resplits = 0
         /\ history.coefficient = 1
         /\ secretkey.old_unsigned = history.r
         /\ secretkey.old_signed = Mul(history.r, logical)
    /\ \A s \in Scalars :
         /\ SecretKeyVT_into_split_dirty(s)
              = [key |-> <<s, Zero>>, old_unsigned |-> Zero, old_signed |-> Zero]
         /\ \A x \in Scalars, r \in Points :
              SecretKeyVT_into_split(s, x, r) = Tracked_into_split(s, x, r).secret

C23_Witness ==
    /\ ret.op = "SecretKeyVT::into_split"
    /\ ret.x # Zero /\ ret.r # Zero /\ ret.from # Zero
    /\ secretkey.key[2] = Sub(Zero, ret.x)
    /\ secretkey.old_signed = Mul(ret.r, ret.from)

\* C24: make_bytes feeds the hash the context, the tag "msg", the message
\* bytes, the tag "out" and the uncompressed affine serialization of the
\* signature, in this order and nothing else, and squeezes as many bytes as
\* were asked for (32 for make_chacharng).
C24_AbsorbedStream ==
    ret.op \in VRFOps =>
        LET group == GroupOf("Signature", ret.variant)
            stream == ret.context \o <<"m", "s", "g">>
                        \o message_bytes(ret.of.message) \o <<"o", "u", "t">>
                        \o octets(serialize_uncompressed(ret.of.signature, group))
            wire == ret.context \o <<"m", "s", "g">>
                        \o message_bytes(ret.of.message) \o <<"o", "u", "t">>
                        \o octets(into_compressed(ret.of.signature, group))
            squeezed == IF ret.op = "SignedMessage::make_bytes"
                        THEN ret.result.value
                        ELSE ret.result.value.seed
        IN  /\ ret.result.outcome = "ok"
            /\ squeezed.absorbed = stream
            /\ squeezed.absorbed # wire
            /\ squeezed.len = ret.n
            /\ ret.op = "SignedMessage::make_chacharng" => ret.n = 32

C24_Witness ==
    /\ ret.op = "SignedMessage::make_bytes"
    /\ ret.variant = "TinyBLS"
    /\ ret.context = <<"g", "s">>
    /\ ret.n = 16
    /\ ret.result.value.len = 16
    /\ Len(ret.result.value.absorbed) > Len(ret.context) + 6

\* The bytes before the signature in what make_bytes absorbs.
Prefix(context, message) ==
    context \o <<"m", "s", "g">> \o message_bytes(message) \o <<"o", "u", "t">>

\* What make_bytes absorbs for a message, a signature and a context.
Absorbed(self, variant, context, n) == make_bytes(self, variant, context, n).value.absorbed

\* C25: the byte stream make_bytes absorbs is an injective function of
\* (context, message bytes, signature): inputs that differ in any of the three
\* never absorb the same stream.
C25_InjectiveStream ==
    ret.op = "SignedMessage::make_bytes" =>
        \A m \in Messages \cup StreamMessages, s \in Points, c \in StreamContexts :
            LET t == [ret.of EXCEPT !.message = m, !.signature = s]
            IN  <<c, message_bytes(m), s>>
                   # <<ret.context, message_bytes(ret.of.message), ret.of.signature>>
                => Absorbed(t, ret.variant, c, ret.n) # ret.result.value.absorbed

\* C25, amended: two inputs absorb the same stream exactly when their
\* signatures are equal and context ++ "msg" ++ message bytes is the same byte
\* string for both; so the stream is injective in (message bytes, signature)
\* for one context, in (context, signature) for one message, and in all three
\* among contexts of one length, while a context ending in the tag can stand
\* for the start of the message.
C25_StreamCollisions ==
    ret.op = "SignedMessage::make_bytes" =>
        \A m \in Messages \cup StreamMessages, s \in Points, c \in StreamContexts :
            LET t == [ret.of EXCEPT !.message = m, !.signature = s]
                same == Absorbed(t, ret.variant, c, ret.n) = ret.result.value.absorbed
                here == <<ret.context, message_bytes(ret.of.message), ret.of.signature>>
            IN  /\ same <=> /\ s = ret.of.signature
                            /\ Prefix(c, m) = Prefix(ret.context, ret.of.message)
                /\ c = ret.context \/ message_bytes(m) = message_bytes(ret.of.message)
                     \/ Len(c) = Len(ret.context)
                     => (same <=> <<c, message_bytes(m), s>> = here)

C25_Witness ==
    /\ ret.op = "SignedMessage::make_bytes"
    /\ ret.context = <<"m", "s", "g">>
    /\ ret.of.message.payload = ""
    /\ Absorbed([ret.of EXCEPT !.message.payload = "msg"], ret.variant, <<>>, ret.n)
         = ret.result.value.absorbed

\* C26: the caller's serialization is necessary. When the lines of two sign
\* calls on one shared SecretKey interleave, a state is reached in which a
\* returned signature differs from secret*H(message), or in which
\* old_signed differs from secret*old_unsigned with no call in progress; as
\* long as no call has begun while another was inside sign, neither happens.
C26_BrokenResult ==
    \E c \in Callers : \E r \in result[c] :
       r.signature # Mul(hash_to_signature_curve(r.message), logical)

C26_BrokenMutation ==
    /\ \A c \in Callers : pc[c] = "idle"
    /\ secretkey.old_signed # Mul(secretkey.old_unsigned, logical)

C26_SerializationNecessary ==
    (C26_BrokenResult \/ C26_BrokenMutation) => history.overlapped

C26_Witness ==
    /\ history.overlapped
    /\ \A c \in Callers : pc[c] = "idle" /\ result[c] # {}
    /\ C26_BrokenResult
    /\ C26_BrokenMutation

\* C27: the frame of each operation. resplit changes only key0 and key1 and
\* leaves old_unsigned and old_signed as they were; init_point_mutation and
\* sign_once change only old_unsigned and old_signed and leave key0 and key1
\* as they were; into_vartime, into_public, SecretKeyVT::sign, the three
\* verify methods and the VRF functions change neither the key nor any value
\* the caller holds; and no operation changes the PublicKey or a
\* SignedMessage, with the Signature in it, that was created before.
ReadOnlyOps ==
    {"SecretKey::into_vartime", "SecretKey::into_public", "SecretKeyVT::sign",
     "SignedMessage::make_bytes", "SignedMessage::make_chacharng"} \cup VerifyOps

====
